---- MODULE Spec2Model ----
(***************************************************************************)
(* Paper-trading ledger of the Polymarket whale tracker                    *)
(* (src/src/paper_trading_polymarket.py, class PaperTradingEngine).        *)
(*                                                                         *)
(* Prices are integer ticks and sizes are whole shares, so usd_value is an *)
(* integer number of ticks.  The engine object ("self") is a record        *)
(*   [starting_balance, balance, trades_df, positions_df, balance_history] *)
(* and every method is an operator from an engine record to the engine     *)
(* record the method leaves behind (plus its return value).                *)
(***************************************************************************)
EXTENDS Integers, Sequences, FiniteSets, TLC

\* ------------------------------------------------------------------ bounds
\* number of calls made on one engine in a run
MaxCalls == 4

\* inputs: two markets, m1 with both outcome tokens; prices in ticks
Markets == {"m1", "m2"}
TokensOf(m) == IF m = "m1" THEN {"YES", "NO"} ELSE {"YES"}
Prices == {1, 2}
Sizes == {1, 2}
StartingBalances == {3, 4}
Threads == {1, 2}

\* ------------------------------------------------------------------ state
VARIABLES
    starting_balance,   \* self.starting_balance
    balance,            \* self.balance
    trades_df,          \* self.trades_df: sequence of trade rows
    positions_df,       \* self.positions_df: sequence of position rows
    balance_history,    \* self.balance_history: sequence of snapshots
    clock,              \* datetime.now() truncated to the second
    ncalls,             \* how many calls have been made (bounds the run)
    last,               \* the last completed call and what it returned
    pc,                 \* per thread: position inside place_order
    args,               \* per thread: the arguments of its place_order call
    local,              \* per thread: the value a statement has read and not yet written back
    result,             \* per thread: the value place_order returned
    whale_trades_df,        \* tracker: self.whale_trades_df
    whale_wallets_df,       \* tracker: self.whale_wallets_df
    copy_signals_df,        \* tracker: self.copy_signals_df
    total_trades_tracked,   \* tracker: self.total_trades_tracked
    whale_trades_detected,  \* tracker: self.whale_trades_detected
    ai_validated_trades,    \* tracker: self.ai_validated_trades
    trades_copied,          \* tracker: self.trades_copied
    ws_connected,           \* tracker: self.ws_connected
    auto_copy_enabled,      \* AUTO_COPY_ENABLED of this deployment
    paper_trading_enabled,  \* PAPER_TRADING_ENABLED of this deployment
    live_orders,            \* how many orders were posted to the exchange
    credentials,            \* POLYMARKET_PRIVATE_KEY and POLYMARKET_FUNDER are both set
    poly_client,            \* nice_funcs: poly_client is a ClobClient (FALSE: None)
    phase,                  \* "start", "loaded" (nice_funcs imported), "running" (agent.run())
    oracle_calls,           \* how many times ai_validate_trade was called
    client_calls,           \* how many calls were made on poly_client
    disk                    \* the three CSV files of the paper ledger

ledgerVars == <<starting_balance, balance, trades_df, positions_df, balance_history>>

trackerVars == <<whale_trades_df, whale_wallets_df, copy_signals_df,
                 total_trades_tracked, whale_trades_detected, ai_validated_trades,
                 trades_copied, ws_connected>>

deployVars == <<auto_copy_enabled, paper_trading_enabled, live_orders,
                credentials, poly_client, phase, oracle_calls, client_calls, disk>>

vars == <<ledgerVars, clock, ncalls, last, pc, args, local, result,
          trackerVars, deployVars>>

None == <<>>

TradeId(now) == <<"PAPER", now>>

\* the engine object as one record
Engine ==
    [starting_balance |-> starting_balance, balance |-> balance,
     trades_df |-> trades_df, positions_df |-> positions_df,
     balance_history |-> balance_history]

\* ------------------------------------------------------------ pure helpers
RECURSIVE SumPnl(_)
SumPnl(rows) ==
    IF rows = <<>> THEN 0 ELSE Head(rows).pnl + SumPnl(Tail(rows))

RECURSIVE SumUnrealized(_)
SumUnrealized(rows) ==
    IF rows = <<>> THEN 0 ELSE Head(rows).unrealized_pnl + SumUnrealized(Tail(rows))

ClosedTrades(tr) == SelectSeq(tr, LAMBDA t : t.status = "CLOSED")

RealizedPnl(tr) == SumPnl(ClosedTrades(tr))

RecalcBalanceValue_Accumulate(start, bal, realized) == bal + realized

RecalcBalanceValue_NoRealized(start, bal, realized) == start

\* self.balance = self.starting_balance + realized_pnl
RecalcBalanceValue(start, bal, realized) == start + realized

RecalculateBalance_Overwrite(self) ==
    IF self.trades_df = <<>>
    THEN [self EXCEPT !.balance = self.starting_balance]
    ELSE LET realized_pnl == RealizedPnl(self.trades_df)
             unrealized_pnl == SumUnrealized(self.positions_df)
             newbal == RecalcBalanceValue(self.starting_balance, self.balance, realized_pnl)
         IN [self EXCEPT !.balance = newbal,
                         !.balance_history = <<[balance |-> newbal,
                              total_pnl |-> realized_pnl + unrealized_pnl]>>]

\* _recalculate_balance
RecalculateBalance(self) ==
    IF self.trades_df = <<>>
    THEN [self EXCEPT !.balance = self.starting_balance]
    ELSE LET realized_pnl == RealizedPnl(self.trades_df)
             unrealized_pnl == SumUnrealized(self.positions_df)
             newbal == RecalcBalanceValue(self.starting_balance, self.balance, realized_pnl)
             balance_update == [balance |-> newbal,
                                total_pnl |-> realized_pnl + unrealized_pnl]
         IN [self EXCEPT !.balance = newbal,
                         !.balance_history = Append(self.balance_history, balance_update)]

InsufficientBalance_OffByOne(side, usd_value, bal) == side = "BUY" /\ usd_value > bal + 1

\* the balance gate of place_order
InsufficientBalance(side, usd_value, bal) == side = "BUY" /\ usd_value > bal

NewTrade(trade_id, market_slug, token_id, side, price, size) ==
    [trade_id |-> trade_id, market_slug |-> market_slug, token_id |-> token_id,
     side |-> side, price |-> price, size |-> size, usd_value |-> price * size,
     status |-> "OPEN", pnl |-> 0]

\* _add_position: always appends a fresh row
AddPosition(self, market_slug, token_id, side, entry_price, shares, entry_value) ==
    [self EXCEPT !.positions_df = Append(self.positions_df,
        [market_slug |-> market_slug, token_id |-> token_id, side |-> side,
         entry_price |-> entry_price, current_price |-> entry_price,
         shares |-> shares, entry_value |-> entry_value,
         current_value |-> entry_value, unrealized_pnl |-> 0])]

\* mask of _close_position over the positions table
PositionMask(p, market_slug, token_id) ==
    p.market_slug = market_slug /\ p.token_id = token_id

BuyTradeMask_AnyToken(t, market_slug, token_id) ==
    /\ t.market_slug = market_slug
    /\ t.side = "BUY"
    /\ t.status = "OPEN"

BuyTradeMask_AnyStatus(t, market_slug, token_id) ==
    /\ t.market_slug = market_slug
    /\ t.token_id = token_id
    /\ t.side = "BUY"

\* buy_trade_mask of _close_position over the trades table
BuyTradeMask(t, market_slug, token_id) ==
    /\ t.market_slug = market_slug
    /\ t.token_id = token_id
    /\ t.side = "BUY"
    /\ t.status = "OPEN"

ClosePnl_ExitOnly(exit_value, entry_value) == exit_value

\* pnl = exit_value - entry_value
ClosePnl(exit_value, entry_value) == exit_value - entry_value

\* _close_position
ClosePosition(self, market_slug, token_id, exit_price, shares) ==
    LET matching == SelectSeq(self.positions_df,
                              LAMBDA p : PositionMask(p, market_slug, token_id))
    IN IF matching = <<>>
       THEN self
       ELSE LET position == Head(matching)
                exit_value == exit_price * shares
                pnl == ClosePnl(exit_value, position.entry_value)
            IN [self EXCEPT
                 !.balance = self.balance + exit_value,
                 !.trades_df = [i \in 1..Len(self.trades_df) |->
                     IF BuyTradeMask(self.trades_df[i], market_slug, token_id)
                     THEN [self.trades_df[i] EXCEPT !.status = "CLOSED", !.pnl = pnl]
                     ELSE self.trades_df[i]],
                 !.positions_df = SelectSeq(self.positions_df,
                     LAMBDA p : ~PositionMask(p, market_slug, token_id))]

\* place_order: the engine it leaves behind and the value it returns
PlaceOrder(self, now, market_slug, token_id, side, price, size) ==
    LET usd_value == price * size
    IN IF InsufficientBalance(side, usd_value, self.balance)
       THEN [self |-> self, ret |-> None]
       ELSE LET trade_id == TradeId(now)
                s1 == [self EXCEPT !.trades_df = Append(self.trades_df,
                          NewTrade(trade_id, market_slug, token_id, side, price, size))]
                s2 == IF side = "BUY"
                      THEN [s1 EXCEPT !.balance = s1.balance - usd_value]
                      ELSE s1
                s3 == IF side = "BUY"
                      THEN AddPosition(s2, market_slug, token_id, side, price, size, usd_value)
                      ELSE ClosePosition(s2, market_slug, token_id, price, size)
            IN [self |-> RecalculateBalance(s3), ret |-> trade_id]

UnrealizedPnl_ValueOnly(current_value, entry_value) == current_value

\* unrealized_pnl = current_value - entry_value
UnrealizedPnl(current_value, entry_value) == current_value - entry_value

UpdatePositionPrices_AllMarkets(self, market_slug, current_price) ==
    [self EXCEPT !.positions_df = [i \in 1..Len(self.positions_df) |->
        LET p == self.positions_df[i]
        IN [p EXCEPT !.current_price = current_price,
                     !.current_value = p.shares * current_price,
                     !.unrealized_pnl = UnrealizedPnl(p.shares * current_price, p.entry_value)]]]

\* update_position_prices
UpdatePositionPrices(self, market_slug, current_price) ==
    [self EXCEPT !.positions_df = [i \in 1..Len(self.positions_df) |->
        LET p == self.positions_df[i]
        IN IF p.market_slug = market_slug
           THEN [p EXCEPT !.current_price = current_price,
                          !.current_value = p.shares * current_price,
                          !.unrealized_pnl = UnrealizedPnl(p.shares * current_price, p.entry_value)]
           ELSE p]]

\* the three CSV files of the ledger
LedgerFiles == {"trades", "positions", "balance"}

\* the files place_order writes for an order it accepted: _save_trades after
\* the append, _save_positions in _add_position or when a position is closed,
\* _save_balance in _recalculate_balance
FilesWritten(self, market_slug, token_id, side, ret) ==
    IF ret = None THEN {}
    ELSE {"trades", "balance"} \cup
         IF side = "BUY" \/ \E i \in 1..Len(self.positions_df) :
                                PositionMask(self.positions_df[i], market_slug, token_id)
         THEN {"positions"} ELSE {}

\* _save_trades / _save_positions / _save_balance: to_csv runs inside
\* try/except Exception, which prints the error; nothing is raised
SaveRaises(file, failing) == FALSE

\* place_order on a disk where the writes of the files in failing fail
PlaceOrderSaving(self, now, failing, market_slug, token_id, side, price, size) ==
    LET r == PlaceOrder(self, now, market_slug, token_id, side, price, size)
        written == FilesWritten(self, market_slug, token_id, side, r.ret)
    IN [self |-> r.self,
        ret |-> IF \E f \in written : SaveRaises(f, failing) THEN None ELSE r.ret,
        failed |-> written \cap failing]

\* ------------------------------------------------- the ledger's CSV files
\* a missing value (float NaN), as read_csv gives it for an empty field; no
\* argument of place_order is this text
NaN == "NaN"

File(rows) == [exists |-> TRUE, rows |-> rows]

NoFile == [exists |-> FALSE, rows |-> <<>>]

\* a data folder without the three files
EmptyDataFolder == [f \in LedgerFiles |-> NoFile]

\* the columns holding text; the others hold numbers or the generated
\* trade_id, which is never empty
TextColumns == {"market_slug", "token_id", "side", "status", "notes"}

\* to_csv(index=False): text as it is, a missing value as the empty field,
\* a number as its digits
WriteCell(c, v) == IF c \in TextColumns /\ v = NaN THEN "" ELSE v

ToCsv(rows) ==
    [i \in 1..Len(rows) |-> [c \in DOMAIN rows[i] |-> [text |-> WriteCell(c, rows[i][c])]]]

\* read_csv: an empty field is a missing value; digits are the number; any
\* other text is itself
ReadCell(c, cell) == IF c \in TextColumns /\ cell.text = "" THEN NaN ELSE cell.text

ReadCsv(file) ==
    [i \in 1..Len(file.rows) |-> [c \in DOMAIN file.rows[i] |-> ReadCell(c, file.rows[i][c])]]

\* _load_trades / _load_positions / _load_balance_history
LoadTable(file) == IF file.exists THEN ReadCsv(file) ELSE <<>>

TableOf(self, f) ==
    IF f = "trades" THEN self.trades_df
    ELSE IF f = "positions" THEN self.positions_df
    ELSE self.balance_history

\* the data folder after the files in written were saved from self
Saved(files, self, written) ==
    [f \in LedgerFiles |-> IF f \in written THEN File(ToCsv(TableOf(self, f))) ELSE files[f]]

\* place_order with its notes argument: the new row carries the notes column
PlaceOrderNoted(self, now, market_slug, token_id, side, price, size, notes) ==
    LET r == PlaceOrder(self, now, market_slug, token_id, side, price, size)
        n == Len(self.trades_df) + 1
        Noted(row) == [c \in DOMAIN row \cup {"notes"} |->
                          IF c = "notes" THEN notes ELSE row[c]]
    IN IF r.ret = None THEN r ELSE [r EXCEPT !.self.trades_df[n] = Noted(@)]

\* place_order and the files it leaves
PlaceOrderStored(self, files, now, market_slug, token_id, side, price, size, notes) ==
    LET r == PlaceOrderNoted(self, now, market_slug, token_id, side, price, size, notes)
        written == FilesWritten(self, market_slug, token_id, side, r.ret)
    IN [self |-> r.self, ret |-> r.ret, disk |-> Saved(files, r.self, written)]

\* update_position_prices and the file it leaves: _save_positions runs when
\* the market has a position
UpdatePositionPricesStored(self, files, market_slug, current_price) ==
    LET after == UpdatePositionPrices(self, market_slug, current_price)
        written == IF \E i \in 1..Len(self.positions_df) :
                          self.positions_df[i].market_slug = market_slug
                   THEN {"positions"} ELSE {}
    IN [self |-> after, disk |-> Saved(files, after, written)]

\* PaperTradingEngine(starting_balance) on a data folder: the three loads,
\* then _recalculate_balance, which saves the balance history unless the
\* trades table is empty
Restart(start, files) ==
    LET loaded == [starting_balance |-> start,
                   balance |-> start,
                   trades_df |-> LoadTable(files["trades"]),
                   positions_df |-> LoadTable(files["positions"]),
                   balance_history |-> LoadTable(files["balance"])]
        after == RecalculateBalance(loaded)
        written == IF loaded.trades_df = <<>> THEN {} ELSE {"balance"}
    IN [self |-> after, disk |-> Saved(files, after, written)]

\* a quotient num/den kept exact (win_rate, avg_win, avg_loss, total_return)
Frac(num, den) == [num |-> num, den |-> den]

Zero == Frac(0, 1)

\* closed_trades[closed_trades['pnl'] > 0]
WinningTrades(closed) == SelectSeq(closed, LAMBDA t : t.pnl > 0)

LosingTrades_NonPositive(closed) == SelectSeq(closed, LAMBDA t : t.pnl <= 0)

\* closed_trades[closed_trades['pnl'] < 0]
LosingTrades(closed) == SelectSeq(closed, LAMBDA t : t.pnl < 0)

\* get_performance_summary
GetPerformanceSummary(self) ==
    LET closed_trades == ClosedTrades(self.trades_df)
    IN IF closed_trades = <<>>
       THEN [total_trades |-> 0, winning_trades |-> 0, losing_trades |-> 0,
             win_rate |-> Zero, total_pnl |-> 0, avg_win |-> Zero,
             avg_loss |-> Zero, current_balance |-> self.balance,
             total_return |-> Zero]
       ELSE LET winning == WinningTrades(closed_trades)
                losing == LosingTrades(closed_trades)
            IN [total_trades |-> Len(closed_trades),
                winning_trades |-> Len(winning),
                losing_trades |-> Len(losing),
                win_rate |-> Frac(Len(winning) * 100, Len(closed_trades)),
                total_pnl |-> SumPnl(closed_trades),
                avg_win |-> IF Len(winning) > 0
                            THEN Frac(SumPnl(winning), Len(winning)) ELSE Zero,
                avg_loss |-> IF Len(losing) > 0
                             THEN Frac(SumPnl(losing), Len(losing)) ELSE Zero,
                current_balance |-> self.balance,
                total_return |-> Frac((self.balance - self.starting_balance) * 100,
                                      self.starting_balance)]

\* ------------------------------------------------------------ whale tracker
\* src/src/agents/whale_tracker_polymarket.py (class WhaleTrackerAgent) and the
\* helpers of src/src/nice_funcs_polymarket.py it calls.  In this part money
\* is counted in cents: a price of 0.02 is 2, usd_value = price * size is a
\* number of cents, and a configured dollar amount d is Cents(d).
MIN_WHALE_TRADE_SIZE == 10000
MIN_WHALE_WIN_RATE == 60
\* 0.70, as a percentage
MIN_AI_CONSENSUS == 70
MAX_POSITION_SIZE == 100
COPY_PERCENTAGE == 10
PAPER_STARTING_BALANCE == 10000
\* 0.50, in cents
simulated_price == 50

Cents(usd) == usd * 100

Dollars(cents) == cents \div 100

Min(a, b) == IF a <= b THEN a ELSE b

\* A Python dict is a function from its keys; d.get(k, default):
Get(d, k, default) == IF k \in DOMAIN d THEN d[k] ELSE default

EmptyDict == [k \in {} |-> 0]

\* A JSON value handed to float(): a number, or a string float() rejects.
Num(n) == [num |-> TRUE, v |-> n]
NotANumber == [num |-> FALSE, v |-> 0]

Wallets == {"w1", "w2"}
\* the traders of the feed and the side each of them takes
Bets == {[trader |-> "w1", side |-> "YES"], [trader |-> "w2", side |-> "NO"]}
FeedPrices == {2}
FeedSizes == {100000, 500000, 600000}

\* payload of an orders_matched event
Payloads ==
    {[eventSlug |-> "m1", trader |-> b.trader, side |-> b.side, price |-> Num(p), size |-> Num(s)] :
        b \in Bets, p \in FeedPrices, s \in FeedSizes}

MalformedPayloads ==
    { [eventSlug |-> "m1", trader |-> "w1", side |-> "YES", size |-> Num(600000)],
      [eventSlug |-> "m1", trader |-> "w1", side |-> "YES", price |-> Num(2)],
      [eventSlug |-> "m1", trader |-> "w1", side |-> "YES", price |-> NotANumber, size |-> Num(600000)],
      [eventSlug |-> "m1", trader |-> "w1", side |-> "YES", price |-> Num(2), size |-> NotANumber] }

\* a websocket frame: text that is not JSON, JSON that is no object, or an object
Frame(kind, type, topic, payload) ==
    [kind |-> kind, type |-> type, topic |-> topic, payload |-> payload]

OrdersMatched(payload) == Frame("dict", "orders_matched", "activity", payload)

MalformedMessages ==
    {Frame("text", "", "", EmptyDict)} \cup {OrdersMatched(p) : p \in MalformedPayloads}

WellFormedEvents == {OrdersMatched(p) : p \in Payloads}

Messages ==
    MalformedMessages \cup WellFormedEvents \cup
    { Frame("list", "", "", EmptyDict),
      Frame("dict", "subscribed", "", EmptyDict),
      Frame("dict", "pong", "", EmptyDict),
      Frame("dict", "trades", "activity", EmptyDict) }

\* what get_trader_stats can return: {} or the statistics of the wallet
StatsReplies ==
    { EmptyDict,
      [win_rate |-> 45, total_volume |-> 9, profit_loss |-> 0 - 2],
      [win_rate |-> 60, total_volume |-> 5, profit_loss |-> 1] }

\* what the swarm can answer: its YES votes out of its votes
VoteReplies ==
    { [yes |-> 0, total |-> 0], [yes |-> 2, total |-> 3],
      [yes |-> 7, total |-> 10], [yes |-> 3, total |-> 3] }

\* what the exchange can answer in live mode
LiveBalances == {0, Cents(10000)}
LiveReplies == {"no_book", "rejected", "accepted"}

\* the deployments: AUTO_COPY_ENABLED, PAPER_TRADING_ENABLED, the
\* PAPER_STARTING_BALANCE of the paper engine, and whether the exchange
\* credentials are set
Deployment(auto, paper, start, creds) ==
    [auto |-> auto, paper |-> paper, start |-> start, creds |-> creds]

Deployments ==
    { Deployment(FALSE, TRUE, Cents(PAPER_STARTING_BALANCE), FALSE),
      Deployment(FALSE, FALSE, Cents(PAPER_STARTING_BALANCE), TRUE),
      Deployment(TRUE, TRUE, Cents(PAPER_STARTING_BALANCE), FALSE),
      Deployment(TRUE, TRUE, Cents(75), FALSE),
      Deployment(TRUE, FALSE, Cents(PAPER_STARTING_BALANCE), TRUE),
      Deployment(TRUE, FALSE, Cents(PAPER_STARTING_BALANCE), FALSE) }

Agent ==
    [whale_trades_df |-> whale_trades_df,
     whale_wallets_df |-> whale_wallets_df,
     copy_signals_df |-> copy_signals_df,
     total_trades_tracked |-> total_trades_tracked,
     whale_trades_detected |-> whale_trades_detected,
     ai_validated_trades |-> ai_validated_trades,
     trades_copied |-> trades_copied,
     ws_connected |-> ws_connected]

\* the tracker, the paper engine it trades on and the exchange it posts to
World ==
    [agent |-> Agent, engine |-> Engine, live_orders |-> live_orders,
     oracle_calls |-> oracle_calls, client_calls |-> client_calls]

\* get_trader_stats: the reply of the statistics service, {} when unavailable
GetTraderStats(env) == env.stats

\* ai_validate_trade: consensus = yes_votes / total_votes >= threshold
AiValidateTrade(votes, threshold) ==
    /\ votes.total # 0
    /\ votes.yes * 100 >= threshold * votes.total

\* a response text is a sequence of characters
YES == <<"Y", "E", "S">>
NO == <<"N", "O">>

\* str.upper() on the letters the responses use
Upper(c) ==
    CASE c = "y" -> "Y" [] c = "e" -> "E" [] c = "s" -> "S"
      [] c = "n" -> "N" [] c = "o" -> "O" [] OTHER -> c

ToUpper(text) == [i \in 1..Len(text) |-> Upper(text[i])]

\* pat in text
Contains(text, pat) ==
    \E i \in 1..(Len(text) - Len(pat) + 1) : SubSeq(text, i, i + Len(pat) - 1) = pat

IsYesVote_AnyYes(response) == Contains(response, YES)

\* if 'YES' in response and 'NO' not in response
IsYesVote(response) == Contains(response, YES) /\ ~Contains(response, NO)

\* elif 'NO' in response
IsNoVote(response) == ~IsYesVote(response) /\ Contains(response, NO)

\* the vote-counting loop of ai_validate_trade over result['responses']
RECURSIVE CountVotes(_, _)
CountVotes(responses, models) ==
    IF models = {}
    THEN [yes |-> 0, no |-> 0, total |-> 0]
    ELSE LET model_name == CHOOSE m \in models : TRUE
             model_data == responses[model_name]
             rest == CountVotes(responses, models \ {model_name})
         IN IF ~model_data.success
            THEN rest
            ELSE LET response == ToUpper(model_data.response)
                 IN [yes |-> rest.yes + (IF IsYesVote(response) THEN 1 ELSE 0),
                     no |-> rest.no + (IF IsNoVote(response) THEN 1 ELSE 0),
                     total |-> rest.total + 1]

\* ai_validate_trade on what the swarm answered: an exception anywhere in the
\* try block gives False
AiValidateTradeOn(reply, threshold) ==
    IF reply.raised
    THEN FALSE
    ELSE AiValidateTrade(CountVotes(reply.responses, DOMAIN reply.responses), threshold)

HasPaperEngine_Never(paper) == FALSE

\* paper_engine = PaperTradingEngine() if PAPER_TRADING_ENABLED else None;
\* both modules read the flag from the same environment variable
HasPaperEngine(paper) == paper

\* get_balance: the value returned
GetBalance(world, env) ==
    IF paper_trading_enabled
    THEN IF HasPaperEngine(paper_trading_enabled)
         THEN world.engine.balance
         ELSE Cents(10000)
    ELSE IF ~poly_client THEN 0
    ELSE env.live_balance

\* get_balance: the world it leaves (live mode asks the client)
AfterGetBalance(world) ==
    IF ~paper_trading_enabled /\ poly_client
    THEN [world EXCEPT !.client_calls = @ + 1]
    ELSE world

\* place_limit_order, live part: without a client None; otherwise the order
\* is posted and the reply carries an orderID or not
PostLimitOrder(world, env) ==
    IF ~poly_client
    THEN [world |-> world, ret |-> None]
    ELSE [world |-> [world EXCEPT !.client_calls = @ + 1, !.live_orders = @ + 1],
          ret |-> IF env.live = "accepted" THEN <<"LIVE", env.now>> ELSE None]

\* place_limit_order
PlaceLimitOrder(world, env, token_id, price, size, side, market_slug) ==
    IF paper_trading_enabled
    THEN IF ~HasPaperEngine(paper_trading_enabled)
         THEN [world |-> world, ret |-> None]
         ELSE
         LET r == PlaceOrder(world.engine, env.now,
                             IF market_slug = "" THEN "unknown" ELSE market_slug,
                             token_id, side, price, size)
         IN [world |-> [world EXCEPT !.engine = r.self], ret |-> r.ret]
    ELSE PostLimitOrder(world, env)

\* place_market_order: in paper mode an order on the paper engine at the
\* simulated price; in live mode best ask, then place_limit_order
PlaceMarketOrder(world, env, token_id, size, side, market_slug) ==
    IF paper_trading_enabled
    THEN IF ~HasPaperEngine(paper_trading_enabled)
         THEN [world |-> world, ret |-> None]
         ELSE
         LET r == PlaceOrder(world.engine, env.now,
                             IF market_slug = "" THEN "unknown" ELSE market_slug,
                             token_id, side, simulated_price, size)
         IN [world |-> [world EXCEPT !.engine = r.self], ret |-> r.ret]
    ELSE IF ~poly_client
         THEN [world |-> world, ret |-> None]
         ELSE IF env.live = "no_book"
         THEN [world |-> [world EXCEPT !.client_calls = @ + 1], ret |-> None]
         ELSE PostLimitOrder([world EXCEPT !.client_calls = @ + 1], env)

\* cancel_order: simulated in paper mode, otherwise asked of the client
CancelOrder(world, env) ==
    IF paper_trading_enabled
    THEN [world |-> world, ret |-> TRUE]
    ELSE IF ~poly_client
    THEN [world |-> world, ret |-> FALSE]
    ELSE [world |-> [world EXCEPT !.client_calls = @ + 1], ret |-> env.live = "accepted"]

\* get_positions: the positions of the paper engine, or the client's
GetPositions(world, env) ==
    IF paper_trading_enabled
    THEN [world |-> world, ret |-> world.engine.positions_df]
    ELSE IF ~poly_client
    THEN [world |-> world, ret |-> <<>>]
    ELSE [world |-> [world EXCEPT !.client_calls = @ + 1], ret |-> <<>>]

ClientInitialised_IgnoringPaper(paper, creds, init_ok) == creds /\ init_ok

\* poly_client after the import of nice_funcs_polymarket: None in paper mode,
\* None without credentials, None when ClobClient(...) raises
ClientInitialised(paper, creds, init_ok) == ~paper /\ creds /\ init_ok

IsKnownWallet_Never(wallets, wallet) == FALSE

\* wallet in self.whale_wallets_df['wallet_address'].values
IsKnownWallet(wallets, wallet) ==
    \E i \in 1..Len(wallets) : wallets[i].wallet_address = wallet

StatsGiven_Always(stats) == TRUE

\* "if stats:" - an empty dict is false
StatsGiven(stats) == DOMAIN stats # {}

TradeCountAfter_Same(trade_count) == trade_count

TradeCountAfter(trade_count) == trade_count + 1

\* new_whale: the row of a wallet seen for the first time
NewWhale(wallet, stats, now) ==
    [wallet_address |-> wallet,
     win_rate |-> IF StatsGiven(stats) THEN Get(stats, "win_rate", 0) ELSE 0,
     total_volume |-> IF StatsGiven(stats) THEN Get(stats, "total_volume", 0) ELSE 0,
     profit_loss |-> IF StatsGiven(stats) THEN Get(stats, "profit_loss", 0) ELSE 0,
     first_seen |-> now,
     last_seen |-> now,
     trade_count |-> 1]

\* _update_whale_wallet
UpdateWhaleWallet(self, wallet, stats, now) ==
    IF IsKnownWallet(self.whale_wallets_df, wallet)
    THEN LET old == self.whale_wallets_df
             Seen(row) == [row EXCEPT !.last_seen = now,
                                      !.trade_count = TradeCountAfter(row.trade_count)]
             Refreshed(row) ==
                 IF StatsGiven(stats)
                 THEN [row EXCEPT !.win_rate = Get(stats, "win_rate", 0),
                                  !.total_volume = Get(stats, "total_volume", 0),
                                  !.profit_loss = Get(stats, "profit_loss", 0)]
                 ELSE row
         IN [self EXCEPT !.whale_wallets_df =
                [i \in 1..Len(old) |->
                    IF old[i].wallet_address = wallet THEN Refreshed(Seen(old[i])) ELSE old[i]]]
    ELSE [self EXCEPT !.whale_wallets_df = Append(@, NewWhale(wallet, stats, now))]

\* copy_size_usd = min(whale_size_usd * (COPY_PERCENTAGE / 100), MAX_POSITION_SIZE)
CopySizeUsd_Uncapped(whale_size_usd) == (whale_size_usd * COPY_PERCENTAGE) \div 100

CopySizeUsd(whale_size_usd) ==
    Min((whale_size_usd * COPY_PERCENTAGE) \div 100, Cents(MAX_POSITION_SIZE))

TokenIdFor(market_slug, whale_side) ==
    IF whale_side = "YES" THEN market_slug \o "_YES_TOKEN" ELSE market_slug \o "_NO_TOKEN"

BalanceTooLow_Never(bal, copy_size_usd) == FALSE

\* if balance < copy_size_usd: return
BalanceTooLow(bal, copy_size_usd) == bal < copy_size_usd

TradesCopiedAfter_Always(copied, executed) == copied + 1

\* if executed: self.trades_copied += 1
TradesCopiedAfter(copied, executed) == IF executed THEN copied + 1 ELSE copied

\* _evaluate_copy_trade
EvaluateCopyTrade(world, env, market_slug, whale_side, whale_size_usd, whale_wallet) ==
    LET asked == [world EXCEPT !.oracle_calls = @ + 1]
    IN
    IF ~AiValidateTrade(env.votes, MIN_AI_CONSENSUS)
    THEN asked
    ELSE LET validated == AfterGetBalance([asked EXCEPT !.agent.ai_validated_trades = @ + 1])
             copy_size_usd == CopySizeUsd(whale_size_usd)
         IN IF BalanceTooLow(GetBalance(validated, env), copy_size_usd)
            THEN validated
            ELSE IF ~auto_copy_enabled
            THEN validated
            ELSE LET \* size is passed as a number of shares: the dollar figure itself
                     order == PlaceMarketOrder(validated, env,
                                               TokenIdFor(market_slug, whale_side),
                                               Dollars(copy_size_usd), "BUY", market_slug)
                     executed == order.ret # None
                     copy_signal == [timestamp |-> env.now,
                                     market_slug |-> market_slug,
                                     whale_wallet |-> whale_wallet,
                                     whale_side |-> whale_side,
                                     whale_size |-> whale_size_usd,
                                     our_side |-> whale_side,
                                     our_size |-> copy_size_usd,
                                     ai_consensus |-> MIN_AI_CONSENSUS,
                                     executed |-> executed,
                                     outcome |-> "PENDING"]
                 IN [order.world EXCEPT
                        !.agent.copy_signals_df = Append(@, copy_signal),
                        !.agent.trades_copied = TradesCopiedAfter(@, executed)]

IsQualityWhale_Any(win_rate) == TRUE

\* is_quality_whale = win_rate >= MIN_WHALE_WIN_RATE
IsQualityWhale(win_rate) == win_rate >= MIN_WHALE_WIN_RATE

ShouldEvaluateCopy_AnyMode(is_quality_whale) == is_quality_whale

\* if is_quality_whale and AUTO_COPY_ENABLED:
ShouldEvaluateCopy(is_quality_whale) == is_quality_whale /\ auto_copy_enabled

\* process_whale_trade
ProcessWhaleTrade(world, env, trade_data, usd_value) ==
    LET market_slug == Get(trade_data, "eventSlug", "")
        wallet == Get(trade_data, "trader", "Unknown")
        side == Get(trade_data, "side", "")
        price == Get(trade_data, "price", Num(0)).v
        size == Get(trade_data, "size", Num(0)).v
        trader_stats == GetTraderStats(env)
        win_rate == Get(trader_stats, "win_rate", 0)
        is_quality_whale == IsQualityWhale(win_rate)
        new_trade == [timestamp |-> env.now,
                      market_slug |-> market_slug,
                      wallet_address |-> wallet,
                      side |-> side,
                      price |-> price,
                      size |-> size,
                      usd_value |-> usd_value,
                      trader_win_rate |-> win_rate,
                      ai_validated |-> FALSE,
                      copied |-> FALSE]
        detected == [world.agent EXCEPT !.whale_trades_detected = @ + 1,
                                        !.whale_trades_df = Append(@, new_trade)]
        recorded == [world EXCEPT !.agent = UpdateWhaleWallet(detected, wallet, trader_stats, env.now)]
    IN IF ShouldEvaluateCopy(is_quality_whale)
       THEN EvaluateCopyTrade(recorded, env, market_slug, side, usd_value, wallet)
       ELSE recorded

IsWhaleTrade_Exclusive(usd_value) == usd_value > Cents(MIN_WHALE_TRADE_SIZE)

\* usd_value >= MIN_WHALE_TRADE_SIZE
IsWhaleTrade(usd_value) == usd_value >= Cents(MIN_WHALE_TRADE_SIZE)

\* the try block of on_ws_message: the world it leaves behind and the
\* exception it stops with ("" when it runs to its end)
TryOnWsMessage(world, env, message) ==
    IF message.kind = "text"
    THEN [world |-> world, exc |-> "JSONDecodeError"]
    ELSE IF message.kind # "dict"
    THEN [world |-> world, exc |-> ""]
    ELSE IF message.type = "subscribed"
    THEN [world |-> [world EXCEPT !.agent.ws_connected = TRUE], exc |-> ""]
    ELSE IF message.type = "pong"
    THEN [world |-> world, exc |-> ""]
    ELSE IF message.topic = "activity" /\ message.type = "orders_matched"
    THEN LET counted == [world EXCEPT !.agent.total_trades_tracked = @ + 1,
                                      !.agent.ws_connected = TRUE]
             price == Get(message.payload, "price", Num(0))
             size == Get(message.payload, "size", Num(0))
         IN IF ~price.num \/ ~size.num
            THEN [world |-> counted, exc |-> "ValueError"]
            ELSE IF IsWhaleTrade(price.v * size.v)
            THEN [world |-> ProcessWhaleTrade(counted, env, message.payload, price.v * size.v),
                  exc |-> ""]
            ELSE [world |-> counted, exc |-> ""]
    ELSE [world |-> world, exc |-> ""]

Handled_JsonOnly(exc) == exc = "JSONDecodeError"

\* except json.JSONDecodeError: pass / except Exception as e: (printed)
Handled(exc) == exc \in {"JSONDecodeError", "ValueError"}

\* on_ws_message: raised is the exception that leaves the handler, "" if none
OnWsMessage(world, env, message) ==
    LET r == TryOnWsMessage(world, env, message)
    IN [world |-> r.world,
        raised |-> IF r.exc = "" \/ Handled(r.exc) THEN "" ELSE r.exc]

\* the configuration as shipped: no auto-copy, paper trading, no credentials,
\* hence no exchange client; the tracker is running
ShippedDeployment ==
    /\ auto_copy_enabled = FALSE
    /\ paper_trading_enabled = TRUE
    /\ credentials = FALSE
    /\ poly_client = FALSE
    /\ phase = "running"

\* WhaleTrackerAgent.__init__ on an empty data folder
AgentInit ==
    /\ whale_trades_df = <<>>
    /\ whale_wallets_df = <<>>
    /\ copy_signals_df = <<>>
    /\ total_trades_tracked = 0
    /\ whale_trades_detected = 0
    /\ ai_validated_trades = 0
    /\ trades_copied = 0
    /\ ws_connected = FALSE
    /\ live_orders = 0
    /\ oracle_calls = 0
    /\ client_calls = 0

\* ------------------------------------------------- sequential specification
NoCall == [op |-> "init", market_slug |-> "", token_id |-> "", side |-> "",
           price |-> 0, size |-> 0, ret |-> None, balance_before |-> 0]

IdleThreads ==
    /\ pc = [t \in Threads |-> "idle"]
    /\ args = [t \in Threads |-> NoCall]
    /\ local = [t \in Threads |-> None]
    /\ result = [t \in Threads |-> None]

\* PaperTradingEngine.__init__ on an empty data folder
Init ==
    /\ starting_balance \in StartingBalances
    /\ balance = starting_balance
    /\ trades_df = <<>>
    /\ positions_df = <<>>
    /\ balance_history = <<>>
    /\ clock = 0
    /\ ncalls = 0
    /\ last = NoCall
    /\ IdleThreads
    /\ AgentInit
    /\ disk = EmptyDataFolder
    /\ ShippedDeployment

Install(self) ==
    /\ balance' = self.balance
    /\ trades_df' = self.trades_df
    /\ positions_df' = self.positions_df
    /\ balance_history' = self.balance_history
    /\ UNCHANGED starting_balance

Called ==
    /\ ncalls < MaxCalls
    /\ ncalls' = ncalls + 1
    /\ UNCHANGED <<clock, pc, args, local, result, trackerVars, deployVars>>

DoPlaceOrder ==
    \E m \in Markets : \E k \in TokensOf(m), side \in {"BUY", "SELL"}, p \in Prices, s \in Sizes :
        LET r == PlaceOrder(Engine, clock, m, k, side, p, s)
        IN /\ Called
           /\ Install(r.self)
           /\ last' = [op |-> "place_order", market_slug |-> m, token_id |-> k,
                       side |-> side, price |-> p, size |-> s, ret |-> r.ret,
                       balance_before |-> balance]

DoUpdatePositionPrices ==
    \E m \in Markets, p \in Prices :
        /\ Called
        /\ Install(UpdatePositionPrices(Engine, m, p))
        /\ last' = [op |-> "update_position_prices", market_slug |-> m, token_id |-> "",
                    side |-> "", price |-> p, size |-> 0, ret |-> None,
                    balance_before |-> balance]

DoRecalculateBalance ==
    /\ Called
    /\ Install(RecalculateBalance(Engine))
    /\ last' = [NoCall EXCEPT !.op = "recalculate_balance", !.balance_before = balance]

Next == DoPlaceOrder \/ DoUpdatePositionPrices \/ DoRecalculateBalance

Spec == Init /\ [][Next]_vars

\* ------------------------------------------------- concurrent specification
\* Two threads each make one BUY place_order call on the same fresh engine.
\* place_order takes no lock, so the threads interleave between statements,
\* and a statement that reads a field and assigns it again (pd.concat into
\* the same attribute, self.balance -= ...) is a read step and a write step.
Other(t) == IF t = 1 THEN 2 ELSE 1

ThreadCost(t) == args[t].price * args[t].size

ConcInit ==
    /\ starting_balance \in StartingBalances
    /\ balance = starting_balance
    /\ trades_df = <<>>
    /\ positions_df = <<>>
    /\ balance_history = <<>>
    /\ clock = 0
    /\ ncalls = 0
    /\ last = NoCall
    /\ IdleThreads
    /\ AgentInit
    /\ disk = EmptyDataFolder
    /\ ShippedDeployment

ConcFrame == UNCHANGED <<starting_balance, clock, ncalls, last, trackerVars, deployVars>>

\* the thread enters place_order(side="BUY")
ConcCall(t) ==
    /\ pc[t] = "idle"
    /\ \E m \in Markets : \E k \in TokensOf(m), p \in Prices, s \in Sizes :
          args' = [args EXCEPT ![t] = [NoCall EXCEPT !.op = "place_order",
                     !.market_slug = m, !.token_id = k, !.side = "BUY",
                     !.price = p, !.size = s]]
    /\ pc' = [pc EXCEPT ![t] = "gate"]
    /\ UNCHANGED <<balance, trades_df, positions_df, balance_history, local, result>>
    /\ ConcFrame

\* if side == "BUY" and usd_value > self.balance: return None
ConcGate(t) ==
    /\ pc[t] = "gate"
    /\ IF InsufficientBalance(args[t].side, ThreadCost(t), balance)
       THEN /\ pc' = [pc EXCEPT ![t] = "done"]
            /\ result' = [result EXCEPT ![t] = None]
       ELSE /\ pc' = [pc EXCEPT ![t] = "trade_read"]
            /\ UNCHANGED result
    /\ UNCHANGED <<balance, trades_df, positions_df, balance_history, args, local>>
    /\ ConcFrame

\* self.trades_df = pd.concat([self.trades_df, ...]): the read
ConcTradeRead(t) ==
    /\ pc[t] = "trade_read"
    /\ local' = [local EXCEPT ![t] = trades_df]
    /\ pc' = [pc EXCEPT ![t] = "trade_write"]
    /\ UNCHANGED <<balance, trades_df, positions_df, balance_history, args, result>>
    /\ ConcFrame

\* self.trades_df = pd.concat([self.trades_df, ...]): the assignment
ConcTradeWrite(t) ==
    /\ pc[t] = "trade_write"
    /\ trades_df' = Append(local[t], NewTrade(TradeId(clock), args[t].market_slug,
                        args[t].token_id, args[t].side, args[t].price, args[t].size))
    /\ pc' = [pc EXCEPT ![t] = "debit_read"]
    /\ UNCHANGED <<balance, positions_df, balance_history, args, local, result>>
    /\ ConcFrame

\* self.balance -= usd_value: the read
ConcDebitRead(t) ==
    /\ pc[t] = "debit_read"
    /\ local' = [local EXCEPT ![t] = balance]
    /\ pc' = [pc EXCEPT ![t] = "debit_write"]
    /\ UNCHANGED <<balance, trades_df, positions_df, balance_history, args, result>>
    /\ ConcFrame

\* self.balance -= usd_value: the assignment
ConcDebitWrite(t) ==
    /\ pc[t] = "debit_write"
    /\ balance' = local[t] - ThreadCost(t)
    /\ pc' = [pc EXCEPT ![t] = "position_read"]
    /\ UNCHANGED <<trades_df, positions_df, balance_history, args, local, result>>
    /\ ConcFrame

\* _add_position, self.positions_df = pd.concat([...]): the read
ConcPositionRead(t) ==
    /\ pc[t] = "position_read"
    /\ local' = [local EXCEPT ![t] = positions_df]
    /\ pc' = [pc EXCEPT ![t] = "position_write"]
    /\ UNCHANGED <<balance, trades_df, positions_df, balance_history, args, result>>
    /\ ConcFrame

\* _add_position, self.positions_df = pd.concat([...]): the assignment
ConcPositionWrite(t) ==
    /\ pc[t] = "position_write"
    /\ positions_df' = AddPosition([positions_df |-> local[t]], args[t].market_slug,
                          args[t].token_id, args[t].side, args[t].price,
                          args[t].size, ThreadCost(t)).positions_df
    /\ pc' = [pc EXCEPT ![t] = "recalculate"]
    /\ UNCHANGED <<balance, trades_df, balance_history, args, local, result>>
    /\ ConcFrame

\* self._recalculate_balance()
ConcRecalculate(t) ==
    /\ pc[t] = "recalculate"
    /\ Install(RecalculateBalance(Engine))
    /\ pc' = [pc EXCEPT ![t] = "return"]
    /\ UNCHANGED <<clock, ncalls, last, args, local, result, trackerVars, deployVars>>

\* return trade_id
ConcReturn(t) ==
    /\ pc[t] = "return"
    /\ result' = [result EXCEPT ![t] = TradeId(clock)]
    /\ pc' = [pc EXCEPT ![t] = "done"]
    /\ UNCHANGED <<balance, trades_df, positions_df, balance_history, args, local>>
    /\ ConcFrame

ConcNext ==
    \E t \in Threads :
        \/ ConcCall(t)
        \/ ConcGate(t)
        \/ ConcTradeRead(t)
        \/ ConcTradeWrite(t)
        \/ ConcDebitRead(t)
        \/ ConcDebitWrite(t)
        \/ ConcPositionRead(t)
        \/ ConcPositionWrite(t)
        \/ ConcRecalculate(t)
        \/ ConcReturn(t)

SpecConc == ConcInit /\ [][ConcNext]_vars

\* ---------------------------------------------- failing-disk specification
\* place_order calls on an engine whose CSV writes can fail (disk full, file
\* locked): each call meets a set of files that cannot be written.
MaxOrders == 2

DoPlaceOrderSaving ==
    \E m \in Markets : \E k \in TokensOf(m), side \in {"BUY", "SELL"}, p \in Prices, s \in Sizes :
      \E failing \in SUBSET LedgerFiles :
        LET r == PlaceOrderSaving(Engine, clock, failing, m, k, side, p, s)
        IN /\ ncalls < MaxOrders
           /\ ncalls' = ncalls + 1
           /\ Install(r.self)
           /\ last' = [op |-> "place_order", market_slug |-> m, token_id |-> k,
                       side |-> side, price |-> p, size |-> s, ret |-> r.ret,
                       balance_before |-> balance, failing |-> failing,
                       failed |-> r.failed]
           /\ UNCHANGED <<clock, pc, args, local, result, trackerVars, deployVars>>

DurableNext == DoPlaceOrderSaving

SpecDurable == Init /\ [][DurableNext]_vars

\* ------------------------------------------------ ledger-store specification
\* One engine with its data folder: orders (with or without notes) placed in
\* the same second as the previous call or a later one, price updates, and
\* restarts of the process, which build a new engine from the files.
MaxOps == 3

Notes == {"", "Whale copy trade"}

StoreMarkets == {"m1"}
StoreSizes == {1}

DoPlaceOrderStored ==
    \E m \in StoreMarkets : \E k \in TokensOf(m), side \in {"BUY", "SELL"}, p \in Prices, s \in StoreSizes :
      \E notes \in Notes, now \in {clock, clock + 1} :
        LET r == PlaceOrderStored(Engine, disk, now, m, k, side, p, s, notes)
        IN /\ ncalls < MaxOps
           /\ ncalls' = ncalls + 1
           /\ clock' = now
           /\ Install(r.self)
           /\ disk' = r.disk
           /\ last' = [op |-> "place_order", market_slug |-> m, token_id |-> k,
                       side |-> side, price |-> p, size |-> s, ret |-> r.ret,
                       balance_before |-> balance]
           /\ UNCHANGED <<pc, args, local, result, trackerVars, auto_copy_enabled,
                          paper_trading_enabled, live_orders, credentials, poly_client,
                          phase, oracle_calls, client_calls>>

DoUpdatePositionPricesStored ==
    \E m \in StoreMarkets, p \in Prices :
        LET r == UpdatePositionPricesStored(Engine, disk, m, p)
        IN /\ ncalls < MaxOps
           /\ ncalls' = ncalls + 1
           /\ Install(r.self)
           /\ disk' = r.disk
           /\ last' = [op |-> "update_position_prices", market_slug |-> m, token_id |-> "",
                       side |-> "", price |-> p, size |-> 0, ret |-> None,
                       balance_before |-> balance]
           /\ UNCHANGED <<clock, pc, args, local, result, trackerVars, auto_copy_enabled,
                          paper_trading_enabled, live_orders, credentials, poly_client,
                          phase, oracle_calls, client_calls>>

DoRestart ==
    LET r == Restart(starting_balance, disk)
    IN /\ ncalls < MaxOps
       /\ ncalls' = ncalls + 1
       /\ Install(r.self)
       /\ disk' = r.disk
       /\ last' = [NoCall EXCEPT !.op = "restart", !.balance_before = balance]
       /\ UNCHANGED <<clock, pc, args, local, result, trackerVars, auto_copy_enabled,
                      paper_trading_enabled, live_orders, credentials, poly_client,
                      phase, oracle_calls, client_calls>>

StoreNext == DoPlaceOrderStored \/ DoUpdatePositionPricesStored \/ DoRestart

SpecStore == Init /\ [][StoreNext]_vars

\* ------------------------------------------------ whale tracker specification
\* The websocket thread hands the frames of the feed to on_ws_message one at
\* a time; each call runs to its end before the next frame is read.  Frames
\* arrive at distinct instants: datetime.now().isoformat() has microseconds.
MaxMessages == 3

NoVotes == [yes |-> 0, total |-> 0]

\* an orders_matched event that reaches process_whale_trade
IsWhaleEvent(message) ==
    /\ message.kind = "dict"
    /\ message.type = "orders_matched"
    /\ message.topic = "activity"
    /\ Get(message.payload, "price", Num(0)).num
    /\ Get(message.payload, "size", Num(0)).num
    /\ IsWhaleTrade(Get(message.payload, "price", Num(0)).v * Get(message.payload, "size", Num(0)).v)

\* the replies the handler can get from the services it consults for a message
Envs(message) ==
    LET statsSet == IF IsWhaleEvent(message) THEN StatsReplies ELSE {EmptyDict}
        VotesFor(stats) ==
            IF /\ IsWhaleEvent(message)
               /\ ShouldEvaluateCopy(IsQualityWhale(Get(stats, "win_rate", 0)))
            THEN VoteReplies ELSE {NoVotes}
        Live(votes) ==
            IF ~paper_trading_enabled /\ poly_client /\ AiValidateTrade(votes, MIN_AI_CONSENSUS)
            THEN LiveBalances \X LiveReplies ELSE {<<0, "no_book">>}
    IN UNION { UNION { { [now |-> now, stats |-> stats, votes |-> votes,
                          live_balance |-> lv[1], live |-> lv[2]] :
                            now \in {clock + 1}, lv \in Live(votes) } :
                       votes \in VotesFor(stats) } :
               stats \in statsSet }

WhaleInit ==
    /\ \E d \in Deployments :
          /\ auto_copy_enabled = d.auto
          /\ paper_trading_enabled = d.paper
          /\ starting_balance = d.start
          /\ credentials = d.creds
          /\ poly_client = (~d.paper /\ d.creds)
    /\ phase = "running"
    /\ balance = starting_balance
    /\ trades_df = <<>>
    /\ positions_df = <<>>
    /\ balance_history = <<>>
    /\ clock = 0
    /\ ncalls = 0
    /\ last = [op |-> "init"]
    /\ IdleThreads
    /\ AgentInit
    /\ disk = EmptyDataFolder

InstallWorld(world) ==
    /\ Install(world.engine)
    /\ whale_trades_df' = world.agent.whale_trades_df
    /\ whale_wallets_df' = world.agent.whale_wallets_df
    /\ copy_signals_df' = world.agent.copy_signals_df
    /\ total_trades_tracked' = world.agent.total_trades_tracked
    /\ whale_trades_detected' = world.agent.whale_trades_detected
    /\ ai_validated_trades' = world.agent.ai_validated_trades
    /\ trades_copied' = world.agent.trades_copied
    /\ ws_connected' = world.agent.ws_connected
    /\ live_orders' = world.live_orders
    /\ oracle_calls' = world.oracle_calls
    /\ client_calls' = world.client_calls

DoOnWsMessage ==
    \E message \in Messages : \E env \in Envs(message) :
        LET r == OnWsMessage(World, env, message)
        IN /\ ncalls < MaxMessages
           /\ ncalls' = ncalls + 1
           /\ clock' = env.now
           /\ InstallWorld(r.world)
           /\ last' = [op |-> "on_ws_message", message |-> message, env |-> env,
                       raised |-> r.raised]
           /\ UNCHANGED <<pc, args, local, result, auto_copy_enabled, paper_trading_enabled,
                          credentials, poly_client, phase, disk>>

WhaleNext == DoOnWsMessage

SpecWhale == WhaleInit /\ [][WhaleNext]_vars

\* ------------------------------------------- startup and trading functions
\* The process from its start: nice_funcs_polymarket is imported (the
\* credential check and the client initialisation run), main() starts the
\* tracker, and from the import on the trading functions can be called.
MaxApiCalls == 3

OrderTokens == {"m1_YES_TOKEN"}
OrderPrices == {2, 50}
OrderSizes == {100}

\* the replies of the exchange to one call
ApiEnvs ==
    IF ~paper_trading_enabled /\ poly_client
    THEN {[now |-> clock + 1, live_balance |-> b, live |-> l] : b \in LiveBalances, l \in LiveReplies}
    ELSE {[now |-> clock + 1, live_balance |-> 0, live |-> "no_book"]}

FuncsInit ==
    /\ starting_balance = Cents(PAPER_STARTING_BALANCE)
    /\ balance = starting_balance
    /\ trades_df = <<>>
    /\ positions_df = <<>>
    /\ balance_history = <<>>
    /\ clock = 0
    /\ ncalls = 0
    /\ last = [op |-> "init", ret |-> None]
    /\ IdleThreads
    /\ AgentInit
    /\ disk = EmptyDataFolder
    /\ auto_copy_enabled = FALSE
    /\ paper_trading_enabled \in BOOLEAN
    /\ credentials \in BOOLEAN
    /\ poly_client = FALSE
    /\ phase = "start"

FuncsFrame ==
    UNCHANGED <<ledgerVars, trackerVars, clock, ncalls, pc, args, local, result,
                auto_copy_enabled, paper_trading_enabled, credentials,
                live_orders, oracle_calls, client_calls, disk>>

\* import of nice_funcs_polymarket: credential check (a message, nothing
\* else) and client initialisation
LoadNiceFuncs ==
    /\ phase = "start"
    /\ \E init_ok \in BOOLEAN :
         poly_client' = ClientInitialised(paper_trading_enabled, credentials, init_ok)
    /\ phase' = "loaded"
    /\ last' = [op |-> "import", ret |-> None]
    /\ FuncsFrame

\* main(): banner, WhaleTrackerAgent(), agent.run()
Main ==
    /\ phase = "loaded"
    /\ phase' = "running"
    /\ last' = [op |-> "main", ret |-> None]
    /\ UNCHANGED poly_client
    /\ FuncsFrame

\* a trading function was called and left world behind
ApiCalled(op, r, env) ==
    /\ phase \in {"loaded", "running"}
    /\ ncalls < MaxApiCalls
    /\ ncalls' = ncalls + 1
    /\ clock' = env.now
    /\ InstallWorld(r.world)
    /\ last' = [op |-> op, ret |-> r.ret]
    /\ UNCHANGED <<pc, args, local, result, auto_copy_enabled, paper_trading_enabled,
                   credentials, poly_client, phase, disk>>

DoPlaceLimitOrder ==
    \E env \in ApiEnvs, k \in OrderTokens, p \in OrderPrices, sz \in OrderSizes, side \in {"BUY", "SELL"} :
        ApiCalled("place_limit_order", PlaceLimitOrder(World, env, k, p, sz, side, "m1"), env)

DoPlaceMarketOrder ==
    \E env \in ApiEnvs, k \in OrderTokens, sz \in OrderSizes, side \in {"BUY", "SELL"} :
        ApiCalled("place_market_order", PlaceMarketOrder(World, env, k, sz, side, "m1"), env)

DoCancelOrder ==
    \E env \in ApiEnvs : ApiCalled("cancel_order", CancelOrder(World, env), env)

DoGetPositions ==
    \E env \in ApiEnvs : ApiCalled("get_positions", GetPositions(World, env), env)

DoGetBalance ==
    \E env \in ApiEnvs :
        ApiCalled("get_balance",
                  [world |-> AfterGetBalance(World), ret |-> <<GetBalance(World, env)>>], env)

FuncsNext ==
    \/ LoadNiceFuncs
    \/ Main
    \/ DoPlaceLimitOrder
    \/ DoPlaceMarketOrder
    \/ DoCancelOrder
    \/ DoGetPositions
    \/ DoGetBalance

SpecFuncs == FuncsInit /\ [][FuncsNext]_vars

\* ------------------------------------------------------ oracle specification
\* ai_validate_trade called on whatever the swarm answers.
MaxQueries == 2

\* what swarm.query can give: an exception, or per model a failure or a text
SwarmModels == {"model_a", "model_b", "model_c"}

SwarmTexts ==
    { <<"y", "e", "s">>,
      <<"N", "o">>,
      <<"U", "N", "C", "E", "R", "T", "A", "I", "N">>,
      <<"Y", "E", "S", " ", "N", "O", "W">> }

ModelData ==
    {[success |-> FALSE, response |-> <<>>]} \cup
    {[success |-> TRUE, response |-> t] : t \in SwarmTexts}

SwarmReplies ==
    {[raised |-> TRUE, responses |-> EmptyDict]} \cup
    {[raised |-> FALSE, responses |-> EmptyDict]} \cup
    {[raised |-> FALSE, responses |-> r] : r \in [SwarmModels -> ModelData]}

\* confidence_threshold, in percent: the default and MIN_AI_CONSENSUS
Thresholds == {60, MIN_AI_CONSENSUS}

DoAiValidateTrade ==
    \E reply \in SwarmReplies, threshold \in Thresholds :
        /\ phase \in {"loaded", "running"}
        /\ ncalls < MaxQueries
        /\ ncalls' = ncalls + 1
        /\ oracle_calls' = oracle_calls + 1
        /\ last' = [op |-> "ai_validate_trade", ret |-> AiValidateTradeOn(reply, threshold),
                    reply |-> reply, threshold |-> threshold]
        /\ UNCHANGED <<ledgerVars, trackerVars, clock, pc, args, local, result,
                       auto_copy_enabled, paper_trading_enabled, credentials, poly_client,
                       phase, live_orders, client_calls, disk>>

OracleNext == DoAiValidateTrade

SpecOracle == Init /\ [][OracleNext]_vars

\* ------------------------------------------- concurrent registry specification
\* Two threads each record one sighting (_update_whale_wallet).  csv_lock is
\* held only inside _save_whale_wallets, around to_csv; the statements of
\* _update_whale_wallet run unlocked, so the threads interleave between them,
\* and a statement that reads the table and assigns it again (trade_count + 1,
\* pd.concat into the same attribute) is a read step and a write step.
KnownRow ==
    [wallet_address |-> "w1", win_rate |-> 60, total_volume |-> 5, profit_loss |-> 1,
     first_seen |-> 0, last_seen |-> 0, trade_count |-> 1]

\* the registry the sightings meet: empty, or one wallet sighted once before
RegistriesBefore == { <<>>, <<KnownRow>> }

WalletConcInit ==
    /\ starting_balance = Cents(PAPER_STARTING_BALANCE)
    /\ balance = starting_balance
    /\ trades_df = <<>>
    /\ positions_df = <<>>
    /\ balance_history = <<>>
    /\ clock = 1
    /\ ncalls = 0
    /\ IdleThreads
    /\ whale_trades_df = <<>>
    /\ whale_wallets_df \in RegistriesBefore
    /\ copy_signals_df = <<>>
    /\ total_trades_tracked = 0
    /\ whale_trades_detected = 0
    /\ ai_validated_trades = 0
    /\ trades_copied = 0
    /\ ws_connected = TRUE
    /\ live_orders = 0
    /\ oracle_calls = 0
    /\ client_calls = 0
    /\ ShippedDeployment
    /\ disk = EmptyDataFolder
    /\ last = [op |-> "sightings", before |-> whale_wallets_df]

WalletFrame ==
    UNCHANGED <<ledgerVars, clock, ncalls, last, result, deployVars,
                whale_trades_df, copy_signals_df, total_trades_tracked,
                whale_trades_detected, ai_validated_trades, trades_copied, ws_connected>>

\* the thread enters _update_whale_wallet(wallet, stats)
WalletCall(t) ==
    /\ pc[t] = "idle"
    /\ \E w \in Wallets, stats \in StatsReplies :
         args' = [args EXCEPT ![t] = [wallet |-> w, stats |-> stats, now |-> clock]]
    /\ pc' = [pc EXCEPT ![t] = "check"]
    /\ UNCHANGED <<whale_wallets_df, local>>
    /\ WalletFrame

\* if wallet in self.whale_wallets_df['wallet_address'].values:
WalletCheck(t) ==
    /\ pc[t] = "check"
    /\ pc' = [pc EXCEPT ![t] =
                IF IsKnownWallet(whale_wallets_df, args[t].wallet) THEN "last_seen" ELSE "concat_read"]
    /\ UNCHANGED <<whale_wallets_df, args, local>>
    /\ WalletFrame

\* self.whale_wallets_df.loc[mask, 'last_seen'] = now
WalletLastSeen(t) ==
    /\ pc[t] = "last_seen"
    /\ whale_wallets_df' =
          [i \in 1..Len(whale_wallets_df) |->
              IF whale_wallets_df[i].wallet_address = args[t].wallet
              THEN [whale_wallets_df[i] EXCEPT !.last_seen = args[t].now]
              ELSE whale_wallets_df[i]]
    /\ pc' = [pc EXCEPT ![t] = "count_read"]
    /\ UNCHANGED <<args, local>>
    /\ WalletFrame

\* ... = self.whale_wallets_df.loc[mask, 'trade_count'] + 1   (right-hand side)
WalletCountRead(t) ==
    /\ pc[t] = "count_read"
    /\ local' = [local EXCEPT ![t] =
                    [i \in 1..Len(whale_wallets_df) |->
                        TradeCountAfter(whale_wallets_df[i].trade_count)]]
    /\ pc' = [pc EXCEPT ![t] = "count_write"]
    /\ UNCHANGED <<whale_wallets_df, args>>
    /\ WalletFrame

\* self.whale_wallets_df.loc[mask, 'trade_count'] = ...       (assignment)
WalletCountWrite(t) ==
    /\ pc[t] = "count_write"
    /\ whale_wallets_df' =
          [i \in 1..Len(whale_wallets_df) |->
              IF whale_wallets_df[i].wallet_address = args[t].wallet /\ i \in DOMAIN local[t]
              THEN [whale_wallets_df[i] EXCEPT !.trade_count = local[t][i]]
              ELSE whale_wallets_df[i]]
    /\ local' = [local EXCEPT ![t] = None]
    /\ pc' = [pc EXCEPT ![t] = "stats"]
    /\ UNCHANGED args
    /\ WalletFrame

\* if stats: win_rate, total_volume, profit_loss are overwritten
WalletStats(t) ==
    /\ pc[t] = "stats"
    /\ whale_wallets_df' =
          [i \in 1..Len(whale_wallets_df) |->
              IF whale_wallets_df[i].wallet_address = args[t].wallet /\ StatsGiven(args[t].stats)
              THEN [whale_wallets_df[i] EXCEPT
                       !.win_rate = Get(args[t].stats, "win_rate", 0),
                       !.total_volume = Get(args[t].stats, "total_volume", 0),
                       !.profit_loss = Get(args[t].stats, "profit_loss", 0)]
              ELSE whale_wallets_df[i]]
    /\ pc' = [pc EXCEPT ![t] = "save"]
    /\ UNCHANGED <<args, local>>
    /\ WalletFrame

\* pd.concat([self.whale_wallets_df, pd.DataFrame([new_whale])])  (the table is read)
WalletConcatRead(t) ==
    /\ pc[t] = "concat_read"
    /\ local' = [local EXCEPT ![t] = whale_wallets_df]
    /\ pc' = [pc EXCEPT ![t] = "concat_write"]
    /\ UNCHANGED <<whale_wallets_df, args>>
    /\ WalletFrame

\* self.whale_wallets_df = pd.concat(...)                        (the attribute is assigned)
WalletConcatWrite(t) ==
    /\ pc[t] = "concat_write"
    /\ whale_wallets_df' = Append(local[t], NewWhale(args[t].wallet, args[t].stats, args[t].now))
    /\ local' = [local EXCEPT ![t] = None]
    /\ pc' = [pc EXCEPT ![t] = "save"]
    /\ UNCHANGED args
    /\ WalletFrame

\* self._save_whale_wallets(): to_csv under csv_lock, then return
WalletSave(t) ==
    /\ pc[t] = "save"
    /\ pc' = [pc EXCEPT ![t] = "done"]
    /\ UNCHANGED <<whale_wallets_df, args, local>>
    /\ WalletFrame

WalletConcNext ==
    \E t \in Threads :
        \/ WalletCall(t)
        \/ WalletCheck(t)
        \/ WalletLastSeen(t)
        \/ WalletCountRead(t)
        \/ WalletCountWrite(t)
        \/ WalletStats(t)
        \/ WalletConcatRead(t)
        \/ WalletConcatWrite(t)
        \/ WalletSave(t)

SpecWalletConc == WalletConcInit /\ [][WalletConcNext]_vars

\* ------------------------------------------------------------------ claims
Pairs == {<<m, k>> : m \in Markets, k \in {"YES", "NO"}}

PositionsFor(pos, m, k) == SelectSeq(pos, LAMBDA p : PositionMask(p, m, k))

HasPosition(pos, m, k) == PositionsFor(pos, m, k) # <<>>

PlacedOrder == last.op = "place_order"

\* the step just taken is a place_order call of the given side
PlacesOrder(side) ==
    /\ ncalls' = ncalls + 1
    /\ last'.op = "place_order"
    /\ last'.side = side

\* C1: after every place_order call that returns a trade id the ledger
\* balance is >= 0.
C1_BalanceNonNegative == (PlacedOrder /\ last.ret # None) => balance >= 0

\* C2: two concurrent BUY calls, each of cost <= balance and of combined
\* cost > balance: exactly one returns a trade id.
C2_ExactlyOneBuySucceeds ==
    (/\ \A t \in Threads : pc[t] = "done"
     /\ \A t \in Threads : ThreadCost(t) <= starting_balance
     /\ ThreadCost(1) + ThreadCost(2) > starting_balance)
    => (\E t \in Threads : result[t] # None /\ result[Other(t)] = None)

\* C3: a successful BUY of cost c = price*size leaves the balance exactly c
\* lower than it was before the call.
C3_BuyDebitsBalance ==
    [][(PlacesOrder("BUY") /\ last'.ret # None)
        => balance' = balance - last'.price * last'.size]_vars

\* C4: on a ledger with no open position for a pair, a successful BUY of S
\* shares at P followed by a SELL of S shares at P2 on that pair removes the
\* position, marks the BUY record CLOSED with pnl (P2 - P)*S and leaves
\* balance = balance before the BUY - P*S + P2*S.
C4_RoundTrip ==
    [][(/\ PlacedOrder /\ last.side = "BUY" /\ last.ret # None
        /\ Len(PositionsFor(positions_df, last.market_slug, last.token_id)) = 1
        /\ PlacesOrder("SELL")
        /\ last'.market_slug = last.market_slug
        /\ last'.token_id = last.token_id
        /\ last'.size = last.size)
        => /\ last'.ret # None
           /\ ~HasPosition(positions_df', last.market_slug, last.token_id)
           /\ Len(trades_df') = Len(trades_df) + 1
           /\ trades_df'[Len(trades_df)].side = "BUY"
           /\ trades_df'[Len(trades_df)].status = "CLOSED"
           /\ trades_df'[Len(trades_df)].pnl = (last'.price - last.price) * last.size
           /\ balance' = last.balance_before - last.price * last.size
                                             + last'.price * last.size]_vars

\* a BUY and the SELL that closed it at another price are the whole trade table
C4_Witness ==
    /\ Len(trades_df) = 2
    /\ PlacedOrder /\ last.side = "SELL" /\ last.ret # None
    /\ trades_df[1].side = "BUY" /\ trades_df[1].status = "CLOSED"
    /\ trades_df[1].market_slug = last.market_slug
    /\ trades_df[1].token_id = last.token_id
    /\ trades_df[1].size = last.size
    /\ trades_df[1].price # last.price
    /\ trades_df[1].pnl = (last.price - trades_df[1].price) * last.size
    /\ balance = starting_balance + trades_df[1].pnl
    /\ positions_df = <<>>

\* C5: a second recalculate_balance right after a first one leaves balance
\* unchanged and appends a snapshot equal to the one the first call wrote
\* (nothing is appended while the trade table is empty).
C5_RecalculateIdempotent ==
    [][(last.op = "recalculate_balance" /\ last'.op = "recalculate_balance"
        /\ ncalls' = ncalls + 1)
        => /\ balance' = balance
           /\ trades_df' = trades_df /\ positions_df' = positions_df
           /\ IF trades_df = <<>>
              THEN balance_history' = balance_history
              ELSE /\ balance_history # <<>>
                   /\ balance_history' =
                        Append(balance_history, balance_history[Len(balance_history)])]_vars

\* BUY, price update, recalculate, recalculate: the two last snapshots agree
\* and carry a non-zero unrealized pnl
C5_Witness ==
    /\ last.op = "recalculate_balance"
    /\ ncalls = 4
    /\ Len(trades_df) = 1
    /\ Len(balance_history) = 3
    /\ SumUnrealized(positions_df) # 0
    /\ balance_history[3] = balance_history[2]
    /\ balance_history[3].total_pnl = SumUnrealized(positions_df)
    /\ balance_history[3].balance = balance

\* C6: a SELL for a pair with no open position returns no trade id and leaves
\* the balance and the trades table as they were.
C6_SellWithoutPositionFails ==
    [][(PlacesOrder("SELL")
        /\ ~HasPosition(positions_df, last'.market_slug, last'.token_id))
        => (last'.ret = None /\ balance' = balance /\ trades_df' = trades_df)]_vars

\* C7: a BUY with price*size > balance returns None and leaves the trades
\* table, the positions table, the balance and the balance history unchanged.
C7_RejectedBuyChangesNothing ==
    [][(PlacesOrder("BUY") /\ last'.price * last'.size > balance)
        => /\ last'.ret = None
           /\ UNCHANGED <<trades_df, positions_df, balance, balance_history,
                          starting_balance>>]_vars

\* a BUY was just rejected on a ledger that already holds trades
C7_Witness ==
    /\ PlacedOrder /\ last.side = "BUY" /\ last.ret = None
    /\ last.price * last.size > balance
    /\ trades_df # <<>>
    /\ positions_df # <<>>

\* C8: at most one open Position row per (market_slug, token_id) pair.
C8_OnePositionPerPair ==
    \A pr \in Pairs : Len(PositionsFor(positions_df, pr[1], pr[2])) <= 1

\* C9 as claimed: a Position exists for a pair iff the trades table holds a
\* record with status OPEN for that pair.
C9_PositionIffOpenTrade ==
    \A pr \in Pairs :
        HasPosition(positions_df, pr[1], pr[2])
        <=> (\E i \in 1..Len(trades_df) :
                /\ trades_df[i].market_slug = pr[1]
                /\ trades_df[i].token_id = pr[2]
                /\ trades_df[i].status = "OPEN")

\* C9 amended: a Position exists for a pair iff the trades table holds a BUY
\* record with status OPEN for that pair (SELL records stay OPEN for ever).
C9_PositionIffOpenBuyTrade ==
    \A pr \in Pairs :
        HasPosition(positions_df, pr[1], pr[2])
        <=> (\E i \in 1..Len(trades_df) :
                /\ trades_df[i].market_slug = pr[1]
                /\ trades_df[i].token_id = pr[2]
                /\ trades_df[i].side = "BUY"
                /\ trades_df[i].status = "OPEN")

\* one pair was bought and sold (its SELL record is still OPEN) while another
\* pair of the same market is still held
C9_Witness ==
    /\ PlacedOrder /\ last.side = "SELL" /\ last.ret # None
    /\ ~HasPosition(positions_df, last.market_slug, last.token_id)
    /\ \E i \in 1..Len(trades_df) :
          /\ trades_df[i].side = "BUY" /\ trades_df[i].status = "CLOSED"
          /\ trades_df[i].market_slug = last.market_slug
          /\ trades_df[i].token_id = last.token_id
    /\ \E i \in 1..Len(positions_df) :
          /\ positions_df[i].market_slug = last.market_slug
          /\ positions_df[i].token_id # last.token_id

\* C10: a trade record is never removed or rewritten except by the one move
\* OPEN -> CLOSED; a CLOSED record keeps its status and pnl for ever, and
\* every OPEN record has pnl = 0.
C10_TradeLifecycle ==
    /\ [](\A i \in 1..Len(trades_df) :
            /\ trades_df[i].status \in {"OPEN", "CLOSED"}
            /\ trades_df[i].status = "OPEN" => trades_df[i].pnl = 0)
    /\ [][/\ Len(trades_df') >= Len(trades_df)
          /\ \A i \in 1..Len(trades_df) :
                /\ trades_df[i].status = "CLOSED" => trades_df'[i] = trades_df[i]
                /\ trades_df[i].status = "OPEN" =>
                      \/ trades_df'[i] = trades_df[i]
                      \/ trades_df'[i] = [trades_df[i] EXCEPT
                             !.status = "CLOSED", !.pnl = trades_df'[i].pnl]]_vars

\* a pair was closed with a non-zero pnl, bought again and closed again at a
\* different pnl
C10_Witness ==
    /\ Len(trades_df) = 4
    /\ trades_df[1].side = "BUY" /\ trades_df[1].status = "CLOSED"
    /\ trades_df[3].side = "BUY" /\ trades_df[3].status = "CLOSED"
    /\ trades_df[3].market_slug = trades_df[1].market_slug
    /\ trades_df[3].token_id = trades_df[1].token_id
    /\ trades_df[1].pnl # 0
    /\ trades_df[3].pnl # trades_df[1].pnl
    /\ trades_df[2].status = "OPEN" /\ trades_df[4].status = "OPEN"

\* C11: a Position row leaves the positions table only through a SELL on its
\* own pair whose size equals the row's share count (a SELL of fewer shares
\* leaves the Position in the table).
C11_ClosedOnlyByFullSell ==
    [][\A i \in 1..Len(positions_df) :
          LET p == positions_df[i]
          IN Len(PositionsFor(positions_df', p.market_slug, p.token_id))
                < Len(PositionsFor(positions_df, p.market_slug, p.token_id))
             => /\ PlacesOrder("SELL")
                /\ last'.market_slug = p.market_slug
                /\ last'.token_id = p.token_id
                /\ last'.size = p.shares]_vars

\* C12: a SELL that closes a position marks exactly one TradeRecord CLOSED and
\* the realized pnl grows by exit_value - entry_value of the closed position.
C12_SellClosesOneTrade ==
    [][(/\ PlacesOrder("SELL") /\ last'.ret # None
        /\ HasPosition(positions_df, last'.market_slug, last'.token_id))
        => /\ Len(ClosedTrades(trades_df')) = Len(ClosedTrades(trades_df)) + 1
           /\ RealizedPnl(trades_df') - RealizedPnl(trades_df)
                = last'.price * last'.size
                  - Head(PositionsFor(positions_df, last'.market_slug,
                                      last'.token_id)).entry_value]_vars

\* C13: balance = starting_balance + sum of pnl over CLOSED records in every
\* state between calls, and the snapshot appended by a completed place_order
\* records that balance with total_pnl = realized pnl + sum of unrealized_pnl
\* of the open positions.
C13_BalanceFromClosedTrades ==
    /\ [](balance = starting_balance + RealizedPnl(trades_df))
    /\ [][(ncalls' = ncalls + 1 /\ last'.op = "place_order" /\ last'.ret # None)
          => balance_history' = Append(balance_history,
                [balance |-> starting_balance + RealizedPnl(trades_df'),
                 total_pnl |-> RealizedPnl(trades_df')
                               + SumUnrealized(positions_df')])]_vars

\* a SELL just realized a non-zero pnl while a re-priced position is open
C13_Witness ==
    /\ PlacedOrder /\ last.side = "SELL" /\ last.ret # None
    /\ RealizedPnl(trades_df) # 0
    /\ SumUnrealized(positions_df) # 0
    /\ balance_history # <<>>
    /\ balance_history[Len(balance_history)] =
          [balance |-> balance,
           total_pnl |-> RealizedPnl(trades_df) + SumUnrealized(positions_df)]
    /\ balance # starting_balance

\* C14: the balance history is append-only: after any operation the previous
\* history is a prefix of the new one.
C14_HistoryAppendOnly ==
    [][/\ Len(balance_history') >= Len(balance_history)
       /\ SubSeq(balance_history', 1, Len(balance_history)) = balance_history]_vars

\* four snapshots, not all alike, the last one written by recalculate_balance
C14_Witness ==
    /\ Len(balance_history) = 4
    /\ balance_history[1] # balance_history[4]
    /\ last.op = "recalculate_balance"

\* C15: update_position_prices(market, price) leaves balance, trades table and
\* balance history unchanged, keeps the set of positions, leaves positions of
\* other markets as they are and changes nothing but current_price,
\* current_value and unrealized_pnl of the positions of that market.
C15_UpdateFrame ==
    [][(ncalls' = ncalls + 1 /\ last'.op = "update_position_prices")
        => /\ UNCHANGED <<starting_balance, balance, trades_df, balance_history>>
           /\ Len(positions_df') = Len(positions_df)
           /\ \A i \in 1..Len(positions_df) :
                LET p == positions_df[i]
                    q == positions_df'[i]
                IN /\ p.market_slug # last'.market_slug => q = p
                   /\ q = [p EXCEPT !.current_price = q.current_price,
                                    !.current_value = q.current_value,
                                    !.unrealized_pnl = q.unrealized_pnl]]_vars

\* a price update just re-priced a position of its market while a position of
\* the other market is held at its entry price
C15_Witness ==
    /\ last.op = "update_position_prices"
    /\ \E i, j \in 1..Len(positions_df) :
          /\ positions_df[i].market_slug = last.market_slug
          /\ positions_df[i].current_price = last.price
          /\ positions_df[i].current_price # positions_df[i].entry_price
          /\ positions_df[i].unrealized_pnl # 0
          /\ positions_df[j].market_slug # last.market_slug
          /\ positions_df[j].current_price = positions_df[j].entry_price
          /\ positions_df[j].current_price # last.price

\* indices of the CLOSED rows of the trade table, and the sum of their pnl
ClosedIdx == {i \in 1..Len(trades_df) : trades_df[i].status = "CLOSED"}

RECURSIVE PnlOver(_)
PnlOver(idx) ==
    IF idx = {} THEN 0
    ELSE LET i == CHOOSE j \in idx : TRUE
         IN trades_df[i].pnl + PnlOver(idx \ {i})

\* C16: get_performance_summary counts CLOSED records only: total, winners
\* (pnl > 0), losers (pnl < 0), total_pnl their sum, avg_win / avg_loss the
\* means over winners / losers and 0 when there are none; with no CLOSED
\* record every figure except current_balance is 0.
C16_PerformanceSummary ==
    LET s == GetPerformanceSummary(Engine)
        W == {i \in ClosedIdx : trades_df[i].pnl > 0}
        L == {i \in ClosedIdx : trades_df[i].pnl < 0}
    IN /\ s.total_trades = Cardinality(ClosedIdx)
       /\ s.winning_trades = Cardinality(W)
       /\ s.losing_trades = Cardinality(L)
       /\ s.winning_trades + s.losing_trades <= s.total_trades
       /\ s.total_pnl = PnlOver(ClosedIdx)
       /\ s.avg_win = IF W = {} THEN Zero ELSE Frac(PnlOver(W), Cardinality(W))
       /\ s.avg_loss = IF L = {} THEN Zero ELSE Frac(PnlOver(L), Cardinality(L))
       /\ s.current_balance = balance
       /\ ClosedIdx = {} =>
             /\ s.win_rate = Zero /\ s.total_return = Zero
             /\ s.total_pnl = 0 /\ s.total_trades = 0

\* one winner and one loser are CLOSED and two SELL rows are still OPEN
C16_Witness ==
    /\ \E i, j \in ClosedIdx : trades_df[i].pnl > 0 /\ trades_df[j].pnl < 0
    /\ Len(trades_df) > Cardinality(ClosedIdx)
    /\ GetPerformanceSummary(Engine).total_trades = 2
    /\ GetPerformanceSummary(Engine).winning_trades = 1
    /\ GetPerformanceSummary(Engine).losing_trades = 1

\* ------------------------------------------------------ whale tracker claims
HandledMessage == last.op = "on_ws_message"

HandlesMessage == last'.op = "on_ws_message" /\ ncalls' = ncalls + 1

EventUsdValue(message) == message.payload.price.v * message.payload.size.v

Recorded(world) ==
    [whale_trades_df |-> world.agent.whale_trades_df,
     whale_wallets_df |-> world.agent.whale_wallets_df,
     copy_signals_df |-> world.agent.copy_signals_df,
     whale_trades_detected |-> world.agent.whale_trades_detected,
     ai_validated_trades |-> world.agent.ai_validated_trades,
     trades_copied |-> world.agent.trades_copied,
     engine |-> world.engine,
     live_orders |-> world.live_orders,
     oracle_calls |-> world.oracle_calls]

\* C18: a malformed message (text that is not JSON, an event without price or
\* without size, an event whose price or size is not a number) is dropped: no
\* exception leaves on_ws_message, no whale trade, wallet, copy signal, order
\* or ledger entry is recorded for it, and every well-formed event handled
\* next leaves on record what it would have left had the malformed message
\* not arrived.
C18_MalformedDropped ==
    [][ (HandlesMessage /\ last'.message \in MalformedMessages) =>
            /\ last'.raised = ""
            /\ Recorded(World') = Recorded(World)
            /\ \A m \in WellFormedEvents : \A env \in Envs(m) :
                 LET without == OnWsMessage(World, env, m)
                     after == OnWsMessage(World', env, m)
                 IN /\ Recorded(after.world) = Recorded(without.world)
                    /\ after.raised = without.raised
      ]_vars

\* an event whose price is not a number has been handled after a whale trade
C18_Witness ==
    /\ HandledMessage
    /\ last.message \in MalformedMessages
    /\ last.message.kind = "dict"
    /\ "price" \in DOMAIN last.message.payload
    /\ ~last.message.payload.price.num
    /\ whale_trades_df # <<>>
    /\ total_trades_tracked > whale_trades_detected

WalletRows(wallet) == {i \in 1..Len(whale_wallets_df) : whale_wallets_df[i].wallet_address = wallet}

TradesFrom(wallet) == {i \in 1..Len(whale_trades_df) : whale_trades_df[i].wallet_address = wallet}

\* C19: starting from an empty registry and handling the events one at a
\* time, a wallet has no row while no whale trade of it was processed, and
\* afterwards one row whose trade_count is the number of whale trades
\* processed from that wallet.
C19_TradeCountIsSightings ==
    \A w \in Wallets :
        IF TradesFrom(w) = {}
        THEN WalletRows(w) = {}
        ELSE /\ WalletRows(w) # {}
             /\ \A i \in WalletRows(w) :
                    whale_wallets_df[i].trade_count = Cardinality(TradesFrom(w))

\* one wallet was sighted twice, the other once
C19_Witness ==
    /\ Len(whale_wallets_df) = 2
    /\ \E i \in 1..2 : whale_wallets_df[i].trade_count = 2
    /\ Len(whale_trades_df) = 3

\* C20: when a whale trade of a wallet already in the registry is processed
\* and the stats lookup returns nothing, the wallet's row keeps its win_rate,
\* total_volume and profit_loss (and first_seen); only last_seen and
\* trade_count change, and the other rows stay as they were.
C20_EmptyStatsKeepStored ==
    [][ ( /\ HandlesMessage
          /\ last'.message \in WellFormedEvents
          /\ Len(whale_trades_df') = Len(whale_trades_df) + 1
          /\ IsKnownWallet(whale_wallets_df, last'.message.payload.trader)
          /\ DOMAIN last'.env.stats = {} ) =>
            /\ Len(whale_wallets_df') = Len(whale_wallets_df)
            /\ \A i \in 1..Len(whale_wallets_df) :
                 whale_wallets_df'[i] =
                    IF whale_wallets_df[i].wallet_address = last'.message.payload.trader
                    THEN [whale_wallets_df[i] EXCEPT !.last_seen = last'.env.now,
                                                     !.trade_count = @ + 1]
                    ELSE whale_wallets_df[i]
      ]_vars

\* a wallet with stored statistics was sighted again while the lookup was empty
C20_Witness ==
    /\ HandledMessage
    /\ last.message \in WellFormedEvents
    /\ DOMAIN last.env.stats = {}
    /\ \E i \in 1..Len(whale_wallets_df) :
         /\ whale_wallets_df[i].wallet_address = last.message.payload.trader
         /\ whale_wallets_df[i].trade_count >= 2
         /\ whale_wallets_df[i].last_seen = last.env.now
         /\ whale_wallets_df[i].win_rate > 0
         /\ whale_wallets_df[i].total_volume > 0

BothRecorded == pc[1] = "done" /\ pc[2] = "done"

CountBefore(wallet) ==
    IF IsKnownWallet(last.before, wallet)
    THEN (CHOOSE r \in {last.before[i] : i \in 1..Len(last.before)} :
              r.wallet_address = wallet).trade_count
    ELSE 0

\* C21: when two threads have each recorded one sighting of the same wallet,
\* the registry holds exactly one row for that wallet and its trade_count is
\* 2 more than before the sightings (2 for a wallet unseen before).
C21_NoLostSighting ==
    (BothRecorded /\ args[1].wallet = args[2].wallet) =>
        /\ Cardinality(WalletRows(args[1].wallet)) = 1
        /\ \A i \in WalletRows(args[1].wallet) :
              whale_wallets_df[i].trade_count = CountBefore(args[1].wallet) + 2

\* a step of on_ws_message that handles an event worth at least the threshold
HandlesWhaleTrade ==
    /\ HandlesMessage
    /\ last'.message \in WellFormedEvents
    /\ EventUsdValue(last'.message) >= Cents(MIN_WHALE_TRADE_SIZE)

HandledWhaleTrade ==
    /\ HandledMessage
    /\ last.message \in WellFormedEvents
    /\ EventUsdValue(last.message) >= Cents(MIN_WHALE_TRADE_SIZE)

\* an order reached the paper ledger or the exchange in this step
OrderSubmitted == trades_df' # trades_df \/ live_orders' # live_orders

LastOf(rows) == rows[Len(rows)]

\* C22: when a whale trade is handled whose wallet win rate (as the stats
\* lookup returned it, 0 when it returned nothing) is below the minimum win
\* rate, the oracle is not called, no order is submitted and no copy signal
\* is recorded.
C22_LowWinRateStopsAtQualityGate ==
    [][ (HandlesWhaleTrade /\ Get(last'.env.stats, "win_rate", 0) < MIN_WHALE_WIN_RATE) =>
            /\ oracle_calls' = oracle_calls
            /\ ~OrderSubmitted
            /\ client_calls' = client_calls
            /\ copy_signals_df' = copy_signals_df
      ]_vars

\* with auto-copy on, a whale trade of a wallet with win rate 45 was handled
C22_Witness ==
    /\ HandledWhaleTrade
    /\ auto_copy_enabled
    /\ Get(last.env.stats, "win_rate", 0) = 45
    /\ LastOf(whale_trades_df).trader_win_rate = 45

BalanceRead ==
    IF paper_trading_enabled THEN balance
    ELSE IF poly_client THEN last'.env.live_balance ELSE 0

\* C24: an order is submitted for a whale trade only if the quality gate
\* passed, the oracle was then asked and approved, and the balance read after
\* that was at least the copy size; a rejected oracle call is followed by no
\* balance read, and a balance below the copy size by no order and no copy
\* signal.
C24_OrderOnlyAfterAllGates ==
    [][ HandlesWhaleTrade =>
            LET quality == Get(last'.env.stats, "win_rate", 0) >= MIN_WHALE_WIN_RATE
                approved == /\ last'.env.votes.total # 0
                            /\ last'.env.votes.yes * 100 >= MIN_AI_CONSENSUS * last'.env.votes.total
                share == (EventUsdValue(last'.message) * COPY_PERCENTAGE) \div 100
                copy_size_usd == IF share <= Cents(MAX_POSITION_SIZE)
                                 THEN share ELSE Cents(MAX_POSITION_SIZE)
            IN /\ OrderSubmitted =>
                    /\ quality
                    /\ oracle_calls' = oracle_calls + 1
                    /\ approved
                    /\ ai_validated_trades' = ai_validated_trades + 1
                    /\ BalanceRead >= copy_size_usd
               /\ ~quality => oracle_calls' = oracle_calls
               /\ ~approved => client_calls' = client_calls /\ ~OrderSubmitted
               /\ BalanceRead < copy_size_usd =>
                    /\ ~OrderSubmitted
                    /\ copy_signals_df' = copy_signals_df
      ]_vars

\* the oracle approved a copy and the paper balance of $75 was below the copy size
C24_Witness ==
    /\ HandledWhaleTrade
    /\ auto_copy_enabled
    /\ paper_trading_enabled
    /\ balance = Cents(75)
    /\ Get(last.env.stats, "win_rate", 0) >= MIN_WHALE_WIN_RATE
    /\ last.env.votes.total # 0
    /\ last.env.votes.yes * 100 >= MIN_AI_CONSENSUS * last.env.votes.total
    /\ ai_validated_trades > 0
    /\ copy_signals_df = <<>>
    /\ trades_df = <<>>

\* C25: in paper mode the trade row an executed copy creates has usd_value
\* equal to the our_size of the copy signal recorded for it.
C25_PaperTradeValueIsCopySize ==
    [][ ( /\ HandlesMessage
          /\ paper_trading_enabled
          /\ Len(copy_signals_df') = Len(copy_signals_df) + 1
          /\ LastOf(copy_signals_df').executed
          /\ Len(trades_df') = Len(trades_df) + 1 ) =>
            LastOf(trades_df').usd_value = LastOf(copy_signals_df').our_size
      ]_vars

\* C26: the copy-signal table never holds a signal with executed = false.
C26_NoUnexecutedSignal ==
    \A i \in 1..Len(copy_signals_df) : copy_signals_df[i].executed

\* C28: with auto-copy disabled the oracle is never called, no order is
\* submitted, the exchange client is never used and no copy signal is
\* recorded, while every whale trade handled adds its row to the whale-trade
\* table and leaves its wallet in the registry.
C28_AutoCopyOffOnlyTracks ==
    /\ [](~auto_copy_enabled =>
            /\ oracle_calls = 0
            /\ live_orders = 0
            /\ client_calls = 0
            /\ trades_df = <<>>
            /\ copy_signals_df = <<>>
            /\ ai_validated_trades = 0
            /\ trades_copied = 0)
    /\ [][ (HandlesWhaleTrade /\ ~auto_copy_enabled) =>
             /\ Len(whale_trades_df') = Len(whale_trades_df) + 1
             /\ LastOf(whale_trades_df').wallet_address = last'.message.payload.trader
             /\ LastOf(whale_trades_df').usd_value = EventUsdValue(last'.message)
             /\ IsKnownWallet(whale_wallets_df', last'.message.payload.trader)
         ]_vars

\* with auto-copy off, a whale trade of a wallet with a qualifying win rate was tracked
C28_Witness ==
    /\ HandledWhaleTrade
    /\ ~auto_copy_enabled
    /\ Get(last.env.stats, "win_rate", 0) >= MIN_WHALE_WIN_RATE
    /\ LastOf(whale_trades_df).trader_win_rate >= MIN_WHALE_WIN_RATE
    /\ IsKnownWallet(whale_wallets_df, last.message.payload.trader)

\* C29: when a CSV write fails during a place_order call, the call returns
\* no trade id, and the tables in memory hold the new trade.
C29_FailedWriteReported ==
    [][ (last'.op = "place_order" /\ ncalls' = ncalls + 1 /\ last'.failed # {}) =>
            /\ last'.ret = None
            /\ Len(trades_df') = Len(trades_df) + 1
      ]_vars

\* C27: with paper trading enabled the exchange client is never initialised
\* and never called, no order is posted to the exchange, and every
\* place_limit_order or place_market_order call returns None or the id of the
\* trade it appended to the paper ledger.
C27_PaperNeverReachesExchange ==
    paper_trading_enabled =>
        /\ ~poly_client
        /\ client_calls = 0
        /\ live_orders = 0
        /\ last.op \in {"place_limit_order", "place_market_order"} =>
              \/ last.ret = None
              \/ /\ trades_df # <<>>
                 /\ LastOf(trades_df).trade_id = last.ret
                 /\ last.ret[1] = "PAPER"

\* paper mode with the credentials set: a market order was filled on the ledger
C27_Witness ==
    /\ paper_trading_enabled
    /\ credentials
    /\ phase = "running"
    /\ last.op = "place_market_order"
    /\ last.ret # None
    /\ trades_df # <<>>

\* C30: with paper trading off and the credentials missing, the process
\* never reaches the running state.
C30_MissingCredentialsHaltStartup ==
    ~(~paper_trading_enabled /\ ~credentials /\ phase = "running")

\* ---------------------------------------------------- ledger-store claims
\* C31: no two rows of the trades table share a trade_id, also when two
\* orders are accepted within the same second.
C31_UniqueTradeIds ==
    \A i, j \in 1..Len(trades_df) :
        i # j => trades_df[i].trade_id # trades_df[j].trade_id

\* ----------------------------------------------------------- oracle claims
\* the models that responded successfully, and those among them whose
\* upper-cased response contains YES and does not contain NO
Responding(reply) == {m \in DOMAIN reply.responses : reply.responses[m].success}

Agreeing(reply) ==
    {m \in Responding(reply) :
        /\ Contains(ToUpper(reply.responses[m].response), YES)
        /\ ~Contains(ToUpper(reply.responses[m].response), NO)}

\* C32: ai_validate_trade approves iff the query did not raise, at least one
\* model responded, and agreeing / responding >= confidence_threshold.
C32_OracleApprovalRule ==
    last.op = "ai_validate_trade" =>
        (last.ret <=>
            /\ ~last.reply.raised
            /\ Responding(last.reply) # {}
            /\ Cardinality(Agreeing(last.reply)) * 100
                   >= last.threshold * Cardinality(Responding(last.reply)))

\* approved by two of three models at 60%, the third saying YES and NO
C32_Witness ==
    /\ last.op = "ai_validate_trade"
    /\ last.ret
    /\ last.threshold = 60
    /\ Cardinality(Responding(last.reply)) = 3
    /\ Cardinality(Agreeing(last.reply)) = 2
    /\ \E m \in Responding(last.reply) : Contains(ToUpper(last.reply.responses[m].response), NO)

\* ------------------------------------------------- whale tracker claims, II
\* C33: the ai_consensus of a recorded copy signal is the fraction the oracle
\* measured for that trade (yes votes over responding votes, in percent).
C33_ConsensusIsMeasured ==
    [][ (HandlesWhaleTrade /\ Len(copy_signals_df') = Len(copy_signals_df) + 1) =>
            LastOf(copy_signals_df').ai_consensus * last'.env.votes.total
                = last'.env.votes.yes * 100
      ]_vars

\* C34: with auto-copy on, a whale trade goes on to copy evaluation (the
\* oracle is asked) iff the win_rate its wallet has in the registry after
\* the sighting is at least the minimum win rate.
C34_QualityAgreesWithRegistry ==
    [][ (HandlesWhaleTrade /\ auto_copy_enabled) =>
            \A i \in 1..Len(whale_wallets_df') :
                whale_wallets_df'[i].wallet_address = last'.message.payload.trader =>
                    ((oracle_calls' = oracle_calls + 1)
                        <=> whale_wallets_df'[i].win_rate >= MIN_WHALE_WIN_RATE)
      ]_vars

\* ------------------------------------------------------ ledger claims, II
\* C35: every open position has current_value = shares * current_price and
\* unrealized_pnl = current_value - entry_value, and the position a BUY
\* creates starts with unrealized_pnl = 0.
C35_PositionMarkedToMarket ==
    /\ [](\A i \in 1..Len(positions_df) :
            /\ positions_df[i].current_value
                  = positions_df[i].shares * positions_df[i].current_price
            /\ positions_df[i].unrealized_pnl
                  = positions_df[i].current_value - positions_df[i].entry_value)
    /\ [][ (PlacesOrder("BUY") /\ last'.ret # None) =>
              /\ Len(positions_df') = Len(positions_df) + 1
              /\ LastOf(positions_df').unrealized_pnl = 0
         ]_vars

\* a position whose price was updated away from its entry price
C35_Witness ==
    /\ last.op = "update_position_prices"
    /\ \E i \in 1..Len(positions_df) :
          /\ positions_df[i].current_price # positions_df[i].entry_price
          /\ positions_df[i].unrealized_pnl # 0

\* C36: handling the events one at a time, the registry never holds two rows
\* with the same wallet_address, and a row keeps its wallet_address and its
\* first_seen for as long as the run lasts.
C36_OneRowPerWallet ==
    /\ [](\A w \in Wallets \cup {"Unknown"} : Cardinality(WalletRows(w)) <= 1)
    /\ [][ \A i \in 1..Len(whale_wallets_df) :
              /\ i <= Len(whale_wallets_df')
              /\ whale_wallets_df'[i].wallet_address = whale_wallets_df[i].wallet_address
              /\ whale_wallets_df'[i].first_seen = whale_wallets_df[i].first_seen
         ]_vars

\* a wallet seen again later: its row counts two trades and was last seen
\* after it was first seen
C36_Witness ==
    /\ HandledWhaleTrade
    /\ \E i \in 1..Len(whale_wallets_df) :
          /\ whale_wallets_df[i].wallet_address = last.message.payload.trader
          /\ whale_wallets_df[i].trade_count = 2
          /\ whale_wallets_df[i].last_seen > whale_wallets_df[i].first_seen

\* C37: a restart (a new engine built from the files, same starting
\* balance) after completed operations whose writes all succeeded leaves the
\* trades table, the positions table and the balance as they were.
Restarts == last'.op = "restart" /\ ncalls' = ncalls + 1

C37_RestartRoundTrip ==
    [][ Restarts =>
            /\ trades_df' = trades_df
            /\ positions_df' = positions_df
            /\ balance' = balance
      ]_vars

\* C38: trades_copied <= ai_validated_trades <= whale_trades_detected <=
\* total_trades_tracked, and trades_copied is the number of copy signals with
\* executed = true recorded in the run.
ExecutedSignals == {i \in 1..Len(copy_signals_df) : copy_signals_df[i].executed}

C38_CountersOrdered ==
    /\ trades_copied <= ai_validated_trades
    /\ ai_validated_trades <= whale_trades_detected
    /\ whale_trades_detected <= total_trades_tracked
    /\ trades_copied = Cardinality(ExecutedSignals)

\* one copy executed, one attempted and not executed, one event below the
\* whale threshold
C38_Witness ==
    /\ trades_copied = 1
    /\ Len(copy_signals_df) = 2
    /\ ai_validated_trades = 2
    /\ whale_trades_detected = 2
    /\ total_trades_tracked = 3

\* C39: in paper mode, events handled one at a time, a copy of an approved
\* quality-whale trade whose copy size the paper balance covers is accepted
\* by the ledger: the ledger gets a new trade, the order returns its id, and
\* the copy signal recorded for it has executed = true; no copy signal
\* recorded in paper mode has executed = false.
C39_GatePassedMeansAccepted ==
    [][ (HandlesWhaleTrade /\ paper_trading_enabled /\ auto_copy_enabled) =>
            LET quality == Get(last'.env.stats, "win_rate", 0) >= MIN_WHALE_WIN_RATE
                approved == /\ last'.env.votes.total # 0
                            /\ last'.env.votes.yes * 100 >= MIN_AI_CONSENSUS * last'.env.votes.total
                share == (EventUsdValue(last'.message) * COPY_PERCENTAGE) \div 100
                copy_size_usd == IF share <= Cents(MAX_POSITION_SIZE)
                                 THEN share ELSE Cents(MAX_POSITION_SIZE)
            IN /\ (quality /\ approved /\ balance >= copy_size_usd) =>
                    /\ Len(trades_df') = Len(trades_df) + 1
                    /\ LastOf(trades_df').side = "BUY"
                    /\ LastOf(trades_df').usd_value <= balance
                    /\ Len(copy_signals_df') = Len(copy_signals_df) + 1
                    /\ LastOf(copy_signals_df').executed
                    /\ trades_copied' = trades_copied + 1
               /\ Len(copy_signals_df') = Len(copy_signals_df) + 1 =>
                    LastOf(copy_signals_df').executed
      ]_vars

\* two copies accepted one after the other by the paper ledger
C39_Witness ==
    /\ HandledWhaleTrade
    /\ paper_trading_enabled
    /\ Len(copy_signals_df) = 2
    /\ \A i \in 1..2 : copy_signals_df[i].executed
    /\ Len(trades_df) = 2
    /\ trades_copied = 2

====
